---- MODULE Spec2Model ----
(***************************************************************************)
(* A model of examples/pltslamshow.py (class SlamShow and its helpers).    *)
(*                                                                         *)
(* The file is Python 2 (tuple parameters, the "cv" binding), so "/" on    *)
(* two ints is floor division and int() truncates toward zero.             *)
(*                                                                         *)
(* The OpenCV image header shares its storage with self.bgrbytes           *)
(* (cv.SetData), so every cv drawing call writes into bgrbytes.            *)
(***************************************************************************)
EXTENDS Integers, Sequences, FiniteSets, TLC

\* ------------------------------------------------------------------ bounds
MaxFigs     == 3   \* figure identities the plot surface can hand out
MaxRefresh  == 3   \* refresh() calls followed in one behaviour
MaxArrows   == 4   \* arrow annotations created in one behaviour
MaxDraws    == 2   \* overlay draw calls followed in one behaviour
MaxTrajLen  == 3   \* longest trajectory given to displayTrajectory
MaxScanLen  == 1   \* longest scan given to displayScan
MaxMM       == 25  \* mm2pix is tried on -MaxMM..MaxMM (and a few far values)
MaxRobotScale == 3 \* robot_polyline is tried on scales 1..MaxRobotScale

\* ------------------------------------------------- constants of the source
ROBOT_HEIGHT          == 16
ROBOT_WIDTH           == 10
ROBOT_HEIGHT_MM       == 500
ROBOT_WIDTH_MM        == 300
SCANPOINT_RADIUS      == 1
SENSOR_V_MAX_MM       == 1000
SENSOR_THETA_MAX_DEG  == 20
SENSOR_BAR_X          == 150
SENSOR_BAR_Y_OFFSET   == 3
SENSOR_BAR_WIDTH      == 20
SENSOR_BAR_MAX_HEIGHT == 200
SENSOR_TEXT_X         == 20
SENSOR_V_Y            == 30
SENSOR_THETA_Y        == 80
ROBOT_COLOR_BGR           == <<0, 0, 255>>
SCANPOINT_COLOR_BGR       == <<0, 255, 0>>
SENSOR_LABEL_COLOR_BGR    == <<255, 0, 0>>
SENSOR_POSITIVE_COLOR_BGR == <<0, 255, 0>>
SENSOR_NEGATIVE_COLOR_BGR == <<0, 0, 255>>
TRAJECTORY_COLOR_BGR      == <<255, 0, 0>>

ESC       == 27      \* the key refresh() compares against
NoKey     == 0 - 1   \* cv.WaitKey's "no key" value
InitPoseMM == 16000  \* the literal passed to _add_vehicle by __init__

\* ------------------------------------------------------------ input sets
MapSizes == {2, 3}          \* map_size_pixels given to the constructor
Scales   == {10, 40}        \* map_scale_mm_per_pixel given to the constructor
Keys     == {27, 32, 113}   \* key codes the key source can deliver
Thetas   == {0, 90, 180, 270}
PoseCoords == {0, 15, 16000}
\* grayscale maps of size*size bytes; the second is [10,20,30,40] at size 2
Maps(size) == { [k \in 1..(size * size) |-> (m * k) % 256] : m \in {0, 10, 85} }
TrajPoints == { <<0 - 5, 15>>, <<45, 90>> }        \* (x_mm, y_mm)
ScanPoints == { <<15, 15>>, <<45, 0 - 5>> }
RobotPoses == { <<x, y, t>> : x \in {15}, y \in {15, 90}, t \in Thetas }
\* a reading is an int or a float; float readings are chosen so that the
\* double value / valspan * 200 is exact
Readings(ns) == { [t |-> ty, n |-> n] : ty \in {"int", "float"}, n \in ns }
DxyReadings    == Readings({0 - 1, 500})
                      \cup {[t |-> "int", n |-> 0], [t |-> "float", n |-> 2500]}
DthetaReadings == {[t |-> "int", n |-> 5], [t |-> "float", n |-> 0 - 30]}
MMs == ((0 - MaxMM)..MaxMM) \cup {1000, 0 - 1000, 995, 0 - 995}

VARIABLES
    map_size_pixels,         \* self.map_size_pixels
    map_scale_mm_per_pixel,  \* self.map_scale_mm_per_pixel
    bgrbytes,                \* self.bgrbytes, the storage of self.image
    cmds,                    \* draw commands the last operation sent to cv
    call,                    \* <<name, arguments...>> of the last call modelled
    result,                  \* value returned by the last pure call
    ndraws,                  \* overlay draw calls made so far
    arrows,                  \* arrow annotations live on self.ax
    vehicle,                 \* self.vehicle (handle of an arrow)
    nextHandle,              \* handles handed out so far by ax.arrow
    figid,                   \* self.figid
    gcf,                     \* identity of the figure plt.gcf() returns
    pendingKey,              \* key the next cv.WaitKey(1) will return
    pc,                      \* "idle", or "waitkey" inside waitkey's loop
    nrefresh,                \* number of refresh() calls made
    ret,                     \* value returned by the last refresh()
    key,                     \* key polled by the last refresh() that polled
    paused,                  \* outcome of plt.pause in the last refresh()
    effects,                 \* external calls made by the last refresh()
    wkret                    \* <<k>> once waitkey returned k, <<>> before

vars == <<map_size_pixels, map_scale_mm_per_pixel, bgrbytes, cmds, call,
          result, ndraws,
          arrows, vehicle, nextHandle, figid, gcf, pendingKey, pc, nrefresh,
          ret, key, paused, effects, wkret>>

rasterVars == <<bgrbytes, cmds, call, result, ndraws>>
poseVars   == <<arrows, vehicle, nextHandle>>
loopVars   == <<gcf, pendingKey, pc, nrefresh, ret, key, paused, effects, wkret>>
confVars   == <<map_size_pixels, map_scale_mm_per_pixel, figid>>

\* --------------------------------------------------------------- helpers
Abs(n) == IF n < 0 THEN 0 - n ELSE n

\* Python's int() on a quotient: truncation toward zero.
TruncDiv(a, b) == IF a >= 0 THEN a \div b ELSE 0 - ((0 - a) \div b)

\* cos and sin of math.radians(deg) as the doubles Python computes, written
\* <<unit, tiny>>: the value is unit + tiny * 10^-21.
Cos(deg) ==
    CASE deg = 0   -> <<1, 0>>
      [] deg = 90  -> <<0, 61232>>
      [] deg = 180 -> <<0 - 1, 0>>
      [] deg = 270 -> <<0, 0 - 183697>>

Sin(deg) ==
    CASE deg = 0   -> <<0, 0>>
      [] deg = 90  -> <<1, 0>>
      [] deg = 180 -> <<0, 122465>>
      [] deg = 270 -> <<0 - 1, 0>>

\* _rotate(0, 0, .1, theta_deg): the arrow shaft, in units of r = 0.1
rotate_shaft(theta_deg) == <<Cos(theta_deg), Sin(theta_deg)>>

\* ax.arrow(x_mm, y_mm, dx, dy, ...): a new annotation with a fresh handle
NewArrow(h, x_mm, y_mm, theta_deg) ==
    [h |-> h, x |-> x_mm, y |-> y_mm,
     dx |-> rotate_shaft(theta_deg)[1], dy |-> rotate_shaft(theta_deg)[2],
     head_width |-> ROBOT_WIDTH_MM, head_length |-> ROBOT_HEIGHT_MM]

\* self.vehicle.remove(): the annotation leaves the axes
RemoveArtist(as, h) == {a \in as : a.h # h}

\* ------------------------------------------------------------------ Init
Init ==
    /\ map_size_pixels \in MapSizes
    /\ map_scale_mm_per_pixel \in Scales
    /\ bgrbytes = [i \in 1..(map_size_pixels * map_size_pixels * 3) |-> 0]
    /\ cmds = <<>>
    /\ call = <<"__init__">>
    /\ result = <<>>
    /\ ndraws = 0
    /\ arrows = {NewArrow(0, InitPoseMM, InitPoseMM, 0)}
    /\ vehicle = 0
    /\ nextHandle = 1
    /\ figid = 1
    /\ gcf = 1
    /\ pendingKey = NoKey
    /\ pc = "idle"
    /\ nrefresh = 0
    /\ ret = TRUE
    /\ key = NoKey
    /\ paused = "none"
    /\ effects = <<>>
    /\ wkret = <<>>

\* ------------------------------------------------------------- pose arrow
\* _add_vehicle: self.vehicle = self.ax.arrow(...)
add_vehicle(as, x_mm, y_mm, theta_deg) ==
    /\ arrows' = as \cup {NewArrow(nextHandle, x_mm, y_mm, theta_deg)}
    /\ vehicle' = nextHandle
    /\ nextHandle' = nextHandle + 1

setPose_noremove(x_mm, y_mm, theta_deg) ==
    /\ pc = "idle"
    /\ nextHandle < MaxArrows
    /\ add_vehicle(arrows, x_mm, y_mm, theta_deg)
    /\ UNCHANGED <<rasterVars, loopVars, confVars>>

setPose(x_mm, y_mm, theta_deg) ==
    /\ pc = "idle"
    /\ nextHandle < MaxArrows
    /\ add_vehicle(RemoveArtist(arrows, vehicle), x_mm, y_mm, theta_deg)
    /\ UNCHANGED <<rasterVars, loopVars, confVars>>

SetPoseCall ==
    \E x \in PoseCoords, y \in PoseCoords, t \in Thetas : setPose(x, y, t)

\* ------------------------------------------------------------ environment
\* A key is pressed in the OpenCV window; it waits for the next cv.WaitKey.
KeyPress ==
    /\ \E k \in Keys : pendingKey' = k
    /\ UNCHANGED <<rasterVars, poseVars, confVars, gcf, pc, nrefresh, ret,
                   key, paused, effects, wkret>>

\* The figure is closed from outside: plt.gcf() now yields another figure.
FigureClosed ==
    /\ gcf < MaxFigs
    /\ gcf' = gcf + 1
    /\ UNCHANGED <<rasterVars, poseVars, confVars, pendingKey, pc, nrefresh,
                   ret, key, paused, effects, wkret>>

\* ---------------------------------------------------------------- refresh
\* cvdisplay(): cv.WaitKey(1) hands over the pending key and consumes it.
cvdisplay == pendingKey

refresh_nopausecheck(raises) ==
    /\ pc = "idle"
    /\ nrefresh < MaxRefresh
    /\ nrefresh' = nrefresh + 1
    /\ IF figid # gcf
       THEN /\ ret' = FALSE
            /\ effects' = <<>>
            /\ paused' = "none"
            /\ UNCHANGED <<key, pendingKey>>
       ELSE /\ paused' = IF raises THEN "raised" ELSE "ok"
            /\ effects' = <<"draw", "pause", "show", "poll">>
            /\ key' = cvdisplay
            /\ pendingKey' = NoKey
            /\ ret' = IF key' = ESC THEN FALSE ELSE TRUE
    /\ UNCHANGED <<rasterVars, poseVars, confVars, gcf, pc, wkret>>

refresh(raises) ==
    /\ pc = "idle"
    /\ nrefresh < MaxRefresh
    /\ nrefresh' = nrefresh + 1
    /\ IF figid # gcf
       THEN /\ ret' = FALSE
            /\ effects' = <<>>
            /\ paused' = "none"
            /\ UNCHANGED <<key, pendingKey>>
       ELSE IF raises
       THEN /\ ret' = FALSE
            /\ effects' = <<"draw", "pause">>
            /\ paused' = "raised"
            /\ UNCHANGED <<key, pendingKey>>
       ELSE /\ paused' = "ok"
            /\ effects' = <<"draw", "pause", "show", "poll">>
            /\ key' = cvdisplay
            /\ pendingKey' = NoKey
            /\ ret' = IF key' = ESC THEN FALSE ELSE TRUE
    /\ UNCHANGED <<rasterVars, poseVars, confVars, gcf, pc, wkret>>

RefreshCall == \E raises \in BOOLEAN : refresh(raises)

\* ---------------------------------------------------------------- waitkey
\* waitkey entry: the prompt is printed, key = -1, the loop is entered.
waitkey_enter ==
    /\ pc = "idle"
    /\ pc' = "waitkey"
    /\ wkret' = <<>>
    /\ UNCHANGED <<rasterVars, poseVars, confVars, gcf, pendingKey, nrefresh,
                   ret, key, paused, effects>>

waitkey_poll_any ==
    /\ pc = "waitkey"
    /\ pendingKey' = NoKey
    /\ pc' = "idle"
    /\ wkret' = <<cvdisplay>>
    /\ UNCHANGED <<rasterVars, poseVars, confVars, gcf, nrefresh,
                   ret, key, paused, effects>>

\* One iteration of the loop: key = cvdisplay(); if key > -1: break; return
waitkey_poll ==
    /\ pc = "waitkey"
    /\ pendingKey' = NoKey
    /\ IF cvdisplay > NoKey
       THEN /\ pc' = "idle"
            /\ wkret' = <<cvdisplay>>
       ELSE UNCHANGED <<pc, wkret>>
    /\ UNCHANGED <<rasterVars, poseVars, confVars, gcf, nrefresh,
                   ret, key, paused, effects>>

\* ------------------------------------------------------ pure functions
mm2pix_floor(mm) == mm \div map_scale_mm_per_pixel

\* mm2pix: int(mm / float(self.map_scale_mm_per_pixel))
mm2pix(mm) == TruncDiv(mm, map_scale_mm_per_pixel)

\* robot_polyline: Python 2 int arithmetic, unary minus before the division
robot_polyline(scale) ==
    LET xlft == ((0 - ROBOT_HEIGHT) \div 2) * scale
        xrgt == (ROBOT_HEIGHT \div 2) * scale
        ybot == (ROBOT_WIDTH \div 2) * scale
        ytop == ((0 - ROBOT_HEIGHT) \div 2) * scale
    IN  << <<xlft, ybot>>, <<xrgt, 0>>, <<xlft, ytop>> >>

RECURSIVE Pow2Floor(_)
\* the largest power of two not above n (n >= 1)
Pow2Floor(n) == IF n < 2 THEN 1 ELSE 2 * Pow2Floor(n \div 2)

\* half the spacing of the doubles just below a (a >= 1), in 10^-21 units
HalfUlpBelow(a) ==
    IF Pow2Floor(a) = a THEN (a * 111022) \div 2 ELSE Pow2Floor(a) * 111022

\* int() of the double nearest to a + tiny * 10^-21
IntOfDouble(a, tiny) ==
    IF a = 0 THEN 0
    ELSE IF a > 0
         THEN IF tiny < 0 /\ (0 - tiny) > HalfUlpBelow(a) THEN a - 1 ELSE a
         ELSE IF tiny > 0 /\ tiny > HalfUlpBelow(0 - a) THEN a + 1 ELSE a

\* rotate(pt, deg): int(x*c - y*s), int(x*s + y*c)
rotate(pt, deg) ==
    LET c == Cos(deg)
        s == Sin(deg)
        x == pt[1]
        y == pt[2]
    IN  << IntOfDouble(x * c[1] - y * s[1], x * c[2] - y * s[2]),
           IntOfDouble(x * s[1] + y * c[1], x * s[2] + y * c[2]) >>

\* ------------------------------------------------- the cv drawing surface
Min(a, b) == IF a < b THEN a ELSE b
Max(a, b) == IF a > b THEN a ELSE b

\* pixels of the image, <<column, row>>
ImagePixels == (0..(map_size_pixels - 1)) \X (0..(map_size_pixels - 1))

\* cv.Line: the image pixels within half a pixel of the segment
LinePixels(p1, p2) ==
    LET dx == p2[1] - p1[1]
        dy == p2[2] - p1[2]
    IN  { q \in ImagePixels :
            /\ Min(p1[1], p2[1]) <= q[1] /\ q[1] <= Max(p1[1], p2[1])
            /\ Min(p1[2], p2[2]) <= q[2] /\ q[2] <= Max(p1[2], p2[2])
            /\ 2 * Abs((q[1] - p1[1]) * dy - (q[2] - p1[2]) * dx)
                 <= Max(Abs(dx), Abs(dy)) }

\* cv.PolyLine(..., True, ...): the edges of the closed polygon
PolyLinePixels(pts) ==
    UNION { LinePixels(pts[i], pts[(i % Len(pts)) + 1]) : i \in 1..Len(pts) }

\* cv.Circle with thickness 1: the outline at distance radius
CirclePixels(c, radius) ==
    { q \in ImagePixels : Abs(q[1] - c[1]) + Abs(q[2] - c[2]) = radius }

\* cv.Rectangle with CV_FILLED: every pixel between the two corners
RectanglePixels(p1, p2) ==
    { q \in ImagePixels :
        /\ Min(p1[1], p2[1]) <= q[1] /\ q[1] <= Max(p1[1], p2[1])
        /\ Min(p1[2], p2[2]) <= q[2] /\ q[2] <= Max(p1[2], p2[2]) }

\* cv.PutText: glyphs lie right of and above the baseline origin
TextPixels(org) == { q \in ImagePixels : q[1] >= org[1] /\ q[2] <= org[2] }

\* pixels of one draw command
CmdPixels(c) ==
    CASE c.op = "Line"      -> LinePixels(c.p1, c.p2)
      [] c.op = "PolyLine"  -> PolyLinePixels(c.pts)
      [] c.op = "Circle"    -> CirclePixels(c.center, c.radius)
      [] c.op = "Rectangle" -> RectanglePixels(c.p1, c.p2)
      [] c.op = "PutText"   -> TextPixels(c.org)

\* the image storage after one draw command: covered pixels take the color
Paint(buf, c) ==
    [i \in DOMAIN buf |->
        IF <<((i - 1) \div 3) % map_size_pixels,
             ((i - 1) \div 3) \div map_size_pixels>> \in CmdPixels(c)
        THEN c.color[((i - 1) % 3) + 1]
        ELSE buf[i]]

RECURSIVE PaintAll(_, _)
PaintAll(buf, cs) ==
    IF cs = <<>> THEN buf ELSE PaintAll(Paint(buf, Head(cs)), Tail(cs))

\* an overlay operation: its commands go to cv, which draws them in order
Overlay(name, args, cs) ==
    /\ pc = "idle"
    /\ ndraws < MaxDraws
    /\ ndraws' = ndraws + 1
    /\ call' = <<name>> \o args
    /\ cmds' = cs
    /\ bgrbytes' = PaintAll(bgrbytes, cs)
    /\ UNCHANGED <<result, poseVars, loopVars, confVars>>

\* ------------------------------------------------------------- displayMap
\* self.bgrbytes[start::3] = mapbytes
SliceAssign(buf, start, mapbytes) ==
    [i \in DOMAIN buf |->
        IF (i - 1) % 3 = start THEN mapbytes[((i - 1) \div 3) + 1] ELSE buf[i]]

Interleave_twochannels(buf, mapbytes) ==
    SliceAssign(SliceAssign(buf, 0, mapbytes), 1, mapbytes)

Interleave(buf, mapbytes) ==
    SliceAssign(SliceAssign(SliceAssign(buf, 0, mapbytes), 1, mapbytes),
                2, mapbytes)

displayMap(mapbytes) ==
    /\ pc = "idle"
    /\ Len(mapbytes) = map_size_pixels * map_size_pixels
    /\ bgrbytes' = Interleave(bgrbytes, mapbytes)
    /\ call' = <<"displayMap", mapbytes>>
    /\ cmds' = <<>>
    /\ UNCHANGED <<result, ndraws, poseVars, loopVars, confVars>>

DisplayMapCall == \E m \in Maps(map_size_pixels) : displayMap(m)

\* ----------------------------------------------------------- displayRobot
displayRobot(pose, color, scale, line_thickness) ==
    LET robot_points == robot_polyline(scale)
        rotated == [i \in 1..3 |-> rotate(robot_points[i], pose[3])]
        x_pix == mm2pix(pose[1])
        y_pix == mm2pix(pose[2])
        moved == [i \in 1..3 |-> <<x_pix + rotated[i][1], y_pix + rotated[i][2]>>]
    IN  Overlay("displayRobot", <<pose>>,
                << [op |-> "PolyLine", pts |-> moved, color |-> color,
                    thickness |-> line_thickness] >>)

DisplayRobotCall == \E p \in RobotPoses : displayRobot(p, ROBOT_COLOR_BGR, 1, 1)

\* ------------------------------------------------------------ displayScan
displayScan(scan, offset_mm, color) ==
    Overlay("displayScan", <<scan>>,
            [i \in 1..Len(scan) |->
                [op |-> "Circle",
                 center |-> <<mm2pix(scan[i][1] + offset_mm[1]),
                              mm2pix(scan[i][2] + offset_mm[2])>>,
                 radius |-> SCANPOINT_RADIUS, color |-> color]])

SeqsUpTo(S, n) == UNION { [1..k -> S] : k \in 0..n }

DisplayScanCall ==
    \E scan \in SeqsUpTo(ScanPoints, MaxScanLen) :
        displayScan(scan, <<0, 0>>, SCANPOINT_COLOR_BGR)

\* ------------------------------------------------------ displayTrajectory
TrajectoryCmds_fromzero(trajectory) ==
    [k \in 1..Len(trajectory) |->
        [op |-> "Line",
         p1 |-> <<mm2pix(trajectory[IF k = 1 THEN Len(trajectory) ELSE k - 1][1]),
                  mm2pix(trajectory[IF k = 1 THEN Len(trajectory) ELSE k - 1][2])>>,
         p2 |-> <<mm2pix(trajectory[k][1]), mm2pix(trajectory[k][2])>>,
         color |-> TRAJECTORY_COLOR_BGR]]

\* for k in range(1, len(trajectory)): cv.Line(points k-1 and k, in pixels)
TrajectoryCmds(trajectory) ==
    [j \in 1..(IF Len(trajectory) > 1 THEN Len(trajectory) - 1 ELSE 0) |->
        [op |-> "Line",
         p1 |-> <<mm2pix(trajectory[j][1]), mm2pix(trajectory[j][2])>>,
         p2 |-> <<mm2pix(trajectory[j + 1][1]), mm2pix(trajectory[j + 1][2])>>,
         color |-> TRAJECTORY_COLOR_BGR]]

displayTrajectory(trajectory) ==
    Overlay("displayTrajectory", <<trajectory>>, TrajectoryCmds(trajectory))

DisplayTrajectoryCall ==
    \E tr \in SeqsUpTo(TrajPoints, MaxTrajLen) : displayTrajectory(tr)

\* ------------------------------------------------------ displayVelocities
\* int(value / valspan * SENSOR_BAR_MAX_HEIGHT): an int value is floor-divided
\* by the int valspan first; a float value is divided exactly
BarLength(value, valspan) ==
    IF value.t = "int"
    THEN (value.n \div valspan) * SENSOR_BAR_MAX_HEIGHT
    ELSE TruncDiv(value.n * SENSOR_BAR_MAX_HEIGHT, valspan)

BarColor_zeroneg(value) ==
    IF value.n <= 0 THEN SENSOR_NEGATIVE_COLOR_BGR ELSE SENSOR_POSITIVE_COLOR_BGR

BarColor(value) ==
    IF value.n < 0 THEN SENSOR_NEGATIVE_COLOR_BGR ELSE SENSOR_POSITIVE_COLOR_BGR

\* show_velocity: the label, then the filled bar
show_velocity(value, valspan, label, y) ==
    LET bar_x1 == SENSOR_BAR_X + SENSOR_BAR_MAX_HEIGHT
        bar_y1 == y + SENSOR_BAR_Y_OFFSET
        bar_x2 == bar_x1 + BarLength(value, valspan)
        bar_y2 == y - SENSOR_BAR_WIDTH + SENSOR_BAR_Y_OFFSET
    IN  << [op |-> "PutText", text |-> label, org |-> <<SENSOR_TEXT_X, y>>,
            color |-> SENSOR_LABEL_COLOR_BGR],
           [op |-> "Rectangle", p1 |-> <<bar_x1, bar_y1>>,
            p2 |-> <<bar_x2, bar_y2>>, color |-> BarColor(value)] >>

displayVelocities(dxy_mm, dtheta_deg) ==
    Overlay("displayVelocities", <<dxy_mm, dtheta_deg>>,
            show_velocity(dxy_mm, SENSOR_V_MAX_MM, "   dXY:", SENSOR_V_Y)
            \o show_velocity(dtheta_deg, SENSOR_THETA_MAX_DEG, "dTheta:",
                             SENSOR_THETA_Y))

DisplayVelocitiesCall ==
    \E v \in DxyReadings, w \in DthetaReadings : displayVelocities(v, w)

\* ------------------------------------------------ calls of pure functions
Mm2pixCall ==
    /\ pc = "idle"
    /\ \E mm \in MMs :
         /\ call' = <<"mm2pix", mm>>
         /\ result' = mm2pix(mm)
    /\ UNCHANGED <<bgrbytes, cmds, ndraws, poseVars, loopVars, confVars>>

RobotPolylineCall ==
    /\ pc = "idle"
    /\ \E scale \in 1..MaxRobotScale :
         /\ call' = <<"robot_polyline", scale>>
         /\ result' = robot_polyline(scale)
    /\ UNCHANGED <<bgrbytes, cmds, ndraws, poseVars, loopVars, confVars>>

\* ---------------------------------------------------------- specifications
NextLoop == RefreshCall \/ waitkey_enter \/ waitkey_poll \/ KeyPress \/ FigureClosed
SpecLoop == Init /\ [][NextLoop]_vars
FairSpecLoop == SpecLoop /\ WF_vars(waitkey_poll)

NextRaster ==
    \/ DisplayMapCall
    \/ DisplayRobotCall
    \/ DisplayScanCall
    \/ DisplayTrajectoryCall
    \/ DisplayVelocitiesCall
SpecRaster == Init /\ [][NextRaster]_vars

NextPure == Mm2pixCall \/ RobotPolylineCall \/ DisplayMapCall \/ DisplayScanCall
SpecPure == Init /\ [][NextPure]_vars

NextPose == SetPoseCall \/ RefreshCall \/ KeyPress
SpecPose == Init /\ [][NextPose]_vars

\* ------------------------------------------------------------------ claims
FullRefresh == <<"draw", "pause", "show", "poll">>

\* C1: once a refresh() has polled ESC and returned False, every later
\* refresh() returns False and makes no external call at all.
C1_StoppedForGood ==
    [][(ret = FALSE /\ key = ESC /\ nrefresh' # nrefresh)
          => (ret' = FALSE /\ effects' = <<>> /\ pendingKey' = pendingKey)]_vars

\* C2: exactly one pose arrow is live on the axes at any time, it is the
\* one self.vehicle holds, and it is the arrow most recently created (so the
\* arrow a setPose removes is the one the previous call or __init__ added).
C2_OneLiveArrow ==
    \E a \in arrows :
        /\ arrows = {a}
        /\ a.h = vehicle
        /\ a.h = nextHandle - 1

C2_Witness ==
    /\ nextHandle = 3
    /\ \E a \in arrows : a.h = 2 /\ a.x = 15 /\ a.dx = Cos(90)

\* C5: while the arrow created by __init__ is the live one, it sits at the
\* centre of the map extent, x = y = scale * size / 2, with orientation 0.
C5_InitialArrowAtCenter ==
    \A a \in arrows :
        a.h = 0 =>
            /\ 2 * a.x = map_scale_mm_per_pixel * map_size_pixels
            /\ 2 * a.y = map_scale_mm_per_pixel * map_size_pixels
            /\ a.dx = <<1, 0>>
            /\ a.dy = <<0, 0>>

\* C3: after displayMap(mapbytes), bytes 3k, 3k+1 and 3k+2 of the raster all
\* equal mapbytes[k] for every k, whatever was drawn into the raster before.
C3_DisplayMapReplaces ==
    call[1] = "displayMap" =>
        /\ Len(bgrbytes) = 3 * map_size_pixels * map_size_pixels
        /\ \A k \in 0..(map_size_pixels * map_size_pixels - 1) :
             /\ bgrbytes[3 * k + 1] = call[2][k + 1]
             /\ bgrbytes[3 * k + 2] = call[2][k + 1]
             /\ bgrbytes[3 * k + 3] = call[2][k + 1]

C3_Witness ==
    /\ call = <<"displayMap", <<10, 20, 30, 40>> >>
    /\ ndraws = 2
    /\ bgrbytes = <<10, 10, 10, 20, 20, 20, 30, 30, 30, 40, 40, 40>>

\* C4: robot_polyline(scale) is three points, symmetric about the x axis:
\* tip at y = 0, the left vertices share x and have opposite y, x-extent
\* ROBOT_HEIGHT*scale and y-extent ROBOT_WIDTH*scale.
C4_RobotTriangleSymmetric ==
    call[1] = "robot_polyline" =>
        /\ Len(result) = 3
        /\ result[2][2] = 0
        /\ result[1][1] = result[3][1]
        /\ result[1][2] = 0 - result[3][2]
        /\ result[2][1] - result[1][1] = ROBOT_HEIGHT * call[2]
        /\ Abs(result[1][2] - result[3][2]) = ROBOT_WIDTH * call[2]

\* C6: mm2pix(mm) is mm/scale truncated toward zero (floor for mm >= 0,
\* ceiling for mm < 0), mm2pix(1000) = 100 and mm2pix(-5) = 0 at scale 10,
\* and the call leaves the session state as it was.
C6_Mm2pixTruncates ==
    [][(call'[1] = "mm2pix" /\ call' # call) =>
        /\ call'[2] >= 0 => result' = call'[2] \div map_scale_mm_per_pixel
        /\ call'[2] < 0 =>
             result' = 0 - ((0 - call'[2]) \div map_scale_mm_per_pixel)
        /\ (map_scale_mm_per_pixel = 10 /\ call'[2] = 1000) => result' = 100
        /\ (map_scale_mm_per_pixel = 10 /\ call'[2] = 0 - 5) => result' = 0
        /\ UNCHANGED <<bgrbytes, cmds, ndraws, poseVars, loopVars, confVars>>]_vars

C6_Witness ==
    /\ call = <<"mm2pix", 0 - 5>>
    /\ result = 0
    /\ map_scale_mm_per_pixel = 10
    /\ ndraws > 0

\* C7: displayTrajectory(points) sends max(0, len-1) Line commands, the k-th
\* from the pixel position of points[k-1] to that of points[k], in order.
C7_TrajectorySegments ==
    call[1] = "displayTrajectory" =>
        LET tr == call[2] IN
        /\ Len(cmds) = IF Len(tr) = 0 THEN 0 ELSE Len(tr) - 1
        /\ \A k \in 1..Len(cmds) :
             /\ cmds[k].op = "Line"
             /\ cmds[k].p1 = <<mm2pix(tr[k][1]), mm2pix(tr[k][2])>>
             /\ cmds[k].p2 = <<mm2pix(tr[k + 1][1]), mm2pix(tr[k + 1][2])>>

C7_Witness ==
    /\ call = <<"displayTrajectory", << <<0 - 5, 15>>, <<45, 90>>, <<0 - 5, 15>> >> >>
    /\ Len(cmds) = 2
    /\ map_scale_mm_per_pixel = 40
    /\ cmds[2].p1 = <<1, 2>>
    /\ cmds[2].p2 = <<0, 0>>

\* C8: each velocity bar has signed length value / span * 200 truncated to
\* an integer, unclamped, in the positive color for value >= 0 and in the
\* negative color for value < 0.
C8_BarLengthAndColor ==
    call[1] = "displayVelocities" =>
        \A i \in 1..2 :
            LET value == call[i + 1]
                span  == IF i = 1 THEN SENSOR_V_MAX_MM ELSE SENSOR_THETA_MAX_DEG
                bar   == cmds[2 * i]
            IN  /\ bar.op = "Rectangle"
                /\ bar.p2[1] - bar.p1[1]
                     = TruncDiv(value.n * SENSOR_BAR_MAX_HEIGHT, span)
                /\ bar.color = IF value.n >= 0 THEN SENSOR_POSITIVE_COLOR_BGR
                               ELSE SENSOR_NEGATIVE_COLOR_BGR

\* C9: waitkey leaves its loop only on a poll that yields a key (> -1), the
\* value it returns is the key of that poll and is never -1, and a key
\* pressed while waitkey is polling leads to its return.
C9_WaitkeyReturnsFirstKey ==
    /\ [][pc = "waitkey" =>
            /\ (pc' = "idle") <=> (pendingKey > NoKey /\ pendingKey' = NoKey)
            /\ (pc' = "idle") => wkret' = <<pendingKey>>]_vars
    /\ [](wkret # <<NoKey>>)
    /\ ((pc = "waitkey" /\ pendingKey > NoKey) ~> (pc = "idle" /\ wkret # <<>>))

C9_Witness == pc = "idle" /\ wkret = <<113>> /\ pendingKey = NoKey

\* C10: refresh() checks the figure identity first and returns False with no
\* external call when it differs; otherwise it requests the redraw and
\* pauses, returns False with nothing further when the pause raises, and
\* only else pushes the raster, polls the key and returns key # ESC.
C10_RefreshOrder ==
    [][nrefresh' # nrefresh =>
        /\ figid # gcf =>
              ret' = FALSE /\ effects' = <<>> /\ pendingKey' = pendingKey
        /\ figid = gcf => paused' \in {"raised", "ok"}
        /\ (figid = gcf /\ paused' = "raised") =>
              /\ ret' = FALSE
              /\ effects' = <<"draw", "pause">>
              /\ pendingKey' = pendingKey
        /\ (figid = gcf /\ paused' = "ok") =>
              /\ effects' = FullRefresh
              /\ key' = pendingKey
              /\ pendingKey' = NoKey
              /\ ret' = (pendingKey # ESC)]_vars

C10_Witness ==
    /\ nrefresh = 2
    /\ paused = "raised"
    /\ ret = FALSE
    /\ effects = <<"draw", "pause">>
    /\ pendingKey = ESC
====
